---------------------------- MODULE Spec2Model ----------------------------
(***************************************************************************)
(* Model of streamlit_app.py: a Streamlit dashboard over a static table of *)
(* condominium transactions.  Every widget interaction reruns the whole    *)
(* script: load (cached), filter, summary metrics, per-ward table,         *)
(* investment simulation, area-band yield table, CSV export.               *)
(*                                                                         *)
(* Numbers that the code holds as floats are exact rationals here:         *)
(* [num, den] in lowest terms, den > 0.  den = 0 is a non-finite float     *)
(* (0/0 is NaN).  Wards are numbered by their rank in sorted(unique()),    *)
(* so < on ward numbers is the lexical order of the ward names.            *)
(***************************************************************************)
EXTENDS Integers, Sequences, FiniteSets, TLC

\* ------------------------------------------------------------ bounds ----
\* Longest dataset (rows of the CSV file) the model draws.
MaxRecords == 3

\* ------------------------------------------------------- rationals ------
RECURSIVE GCD(_, _)
GCD(a, b) == IF b = 0 THEN a ELSE GCD(b, a % b)

Abs(x) == IF x < 0 THEN -x ELSE x

\* n/d in lowest terms with a positive denominator; d = 0 gives NaN.
Rat(n, d) ==
    IF d = 0 THEN [num |-> 0, den |-> 0]
    ELSE LET g == GCD(Abs(n), Abs(d))
             s == IF d < 0 THEN -1 ELSE 1
         IN  [num |-> (s * n) \div g, den |-> (s * d) \div g]

NaN == [num |-> 0, den |-> 0]

IsNaN(x) == x.den = 0

Whole(n) == [num |-> n, den |-> 1]

RMul(x, y) == IF IsNaN(x) \/ IsNaN(y) THEN NaN ELSE Rat(x.num * y.num, x.den * y.den)

RSub(x, y) == IF IsNaN(x) \/ IsNaN(y) THEN NaN
              ELSE Rat(x.num * y.den - y.num * x.den, x.den * y.den)

\* x / y for y # 0 (the callers decide what a zero divisor does).
RDiv(x, y) == IF IsNaN(x) \/ IsNaN(y) THEN NaN ELSE Rat(x.num * y.den, x.den * y.num)

\* x >= y for finite x, y.
RGeq(x, y) == x.num * y.den >= y.num * x.den

\* ------------------------------------------------------- the table ------
\* "全て", the sentinel option put in front of the ward names.
ALL == 0

Wards == {1, 2}

\* Columns of data/osaka_mansion_cleaned.csv that the script reads.
DatasetColumns == <<"ward", "area", "age", "distance", "unit_price", "total_price">>

Row(w, a, g, d, u) ==
    [ward |-> w, area |-> a, age |-> g, distance |-> d,
     unit_price |-> u, total_price |-> u * a]

\* The rows a modelled file is made of: one on the lowest band edge, one on
\* the highest, one on an inner edge; two wards; equal and unequal unit prices.
Records ==
    { Row(1, 30, 0, 0, 60), Row(2, 100, 35, 12, 60), Row(1, 50, 20, 5, 40) }

RECURSIVE SeqsUpTo(_)
SeqsUpTo(n) ==
    IF n = 0 THEN { <<>> }
    ELSE LET shorter == SeqsUpTo(n - 1)
         IN  shorter \cup { Append(s, r) : s \in { t \in shorter : Len(t) = n - 1 }, r \in Records }

Column(d, f) == [i \in 1..Len(d) |-> d[i][f]]

RECURSIVE SeqMin(_)
SeqMin(s) == IF Len(s) = 1 THEN s[1]
             ELSE LET m == SeqMin(Tail(s)) IN IF s[1] < m THEN s[1] ELSE m

RECURSIVE SeqMax(_)
SeqMax(s) == IF Len(s) = 1 THEN s[1]
             ELSE LET m == SeqMax(Tail(s)) IN IF s[1] > m THEN s[1] ELSE m

RECURSIVE SumOver(_, _, _, _)
\* The sum of column f over the rows of d numbered in idx, up to row n.
SumOver(d, f, idx, n) ==
    IF n = 0 THEN 0
    ELSE (IF n \in idx THEN d[n][f] ELSE 0) + SumOver(d, f, idx, n - 1)

\* Series.mean() of column f over the rows numbered in idx: the sum over the
\* count, and NaN (no exception) when there is no row.
Mean(d, f, idx) ==
    IF idx = {} THEN NaN ELSE Rat(SumOver(d, f, idx, Len(d)), Cardinality(idx))

\* ------------------------------------------------------- the widgets ----
\* value=(30, 100), value=(0, 35), value=(0, 12): the sliders' first values.
DefaultArea == <<30, 100>>
DefaultAge == <<0, 35>>
DefaultDistance == <<0, 12>>

\* st.slider raises when its value lies outside [min_value, max_value]; a
\* file the app starts on has int(min) <= the default <= int(max).
DefaultsInRange(d) ==
    /\ SeqMin(Column(d, "area")) <= DefaultArea[1]
    /\ SeqMax(Column(d, "area")) >= DefaultArea[2]
    /\ SeqMin(Column(d, "age")) <= DefaultAge[1]
    /\ SeqMax(Column(d, "age")) >= DefaultAge[2]
    /\ SeqMin(Column(d, "distance")) <= DefaultDistance[1]
    /\ SeqMax(Column(d, "distance")) >= DefaultDistance[2]

\* The files the app can start on.
Datasets == { d \in SeqsUpTo(MaxRecords) : Len(d) >= 1 /\ DefaultsInRange(d) }

\* What the user may pick in the multiselect: any subset of its options.
WardSelections == { {ALL}, {}, {1}, {ALL, 2} }

\* Slider positions the model tries (a range slider keeps low <= high).
AreaRanges == { <<30, 100>>, <<50, 70>> }
AgeRanges == { <<0, 35>>, <<20, 20>> }
DistanceRanges == { <<0, 12>>, <<5, 5>> }

\* Numbers the user may type into the number inputs.
PriceInputs == { 500, 3000 }
RentInputs == { 5, 12 }
CostInputs == { 20, 50, 100 }

\* min_value / max_value of the three st.number_input widgets.
sim_price_min == 500
sim_price_max == 10000
sim_rent_min == 5
sim_rent_max == 50
sim_cost_min == 10
sim_cost_max_Loose == 50 + 50
sim_cost_max == 50

\* --------------------------------------------------------- the state ----
VARIABLES
    csv_file,          \* rows of data/osaka_mansion_cleaned.csv
    observed_default,  \* the installed pandas' default for groupby(observed=)
    cache,             \* what st.cache_data holds for load_data (<<>>: nothing)
    rendered,          \* the script has run at least once in this session
    df,                \* the table the last run loaded
    selected_ward, area_range, age_range, distance_range,
    sim_price, sim_rent, sim_cost,
    filtered_df,       \* rows of filtered_df, dataset columns only
    filtered_columns,  \* filtered_df.columns when the run ended
    area_band,         \* the column filtered_df["面積帯"]: 0 is NaN, 1..3 a label
    metrics,           \* the four means shown on tab 1
    ward_stats,        \* the per-ward table of tab 2
    gross_yield, net_yield, annual_cashflow, payback,
    error,             \* the exception that ended the run, or "none"
    area_yield,        \* the per-band table of tab 3
    csv,               \* the download's header and lines
    file_name          \* the number in the download's file name

vars == <<csv_file, observed_default, cache, rendered, df, selected_ward,
          area_range, age_range, distance_range, sim_price, sim_rent, sim_cost,
          filtered_df, filtered_columns, area_band, metrics, ward_stats,
          gross_yield, net_yield, annual_cashflow, payback, error, area_yield,
          csv, file_name>>

\* ----------------------------------------------------- Dataset Loader ---
\* @st.cache_data: the file is read on the first call only.
load_data == IF cache # <<>> THEN cache ELSE csv_file

\* --------------------------------------------------------- Filter Engine
CopyDf_Stale(d) == filtered_df

\* filtered_df = df.copy()
CopyDf(d) == d

\* if "全て" not in selected_ward: keep the rows whose ward isin(selected_ward)
FilterByWard(d, sel) ==
    IF ALL \notin sel THEN SelectSeq(d, LAMBDA r : r.ward \in sel) ELSE d

InRange_OpenTop(r, a, g, t) ==
    /\ r.area >= a[1] /\ r.area < a[2]
    /\ r.age >= g[1] /\ r.age < g[2]
    /\ r.distance >= t[1] /\ r.distance < t[2]

\* The boolean mask of the second filter, for one row.
InRange(r, a, g, t) ==
    /\ r.area >= a[1] /\ r.area <= a[2]
    /\ r.age >= g[1] /\ r.age <= g[2]
    /\ r.distance >= t[1] /\ r.distance <= t[2]

FilterByRange(d, a, g, t) == SelectSeq(d, LAMBDA r : InRange(r, a, g, t))

FilteredView(d, sel, a, g, t) == FilterByRange(FilterByWard(CopyDf(d), sel), a, g, t)

\* ---------------------------------------------------- Aggregation Engine
\* The four st.metric values of tab 1.
Tab1Metrics(v) ==
    [unit_price  |-> Mean(v, "unit_price", DOMAIN v),
     total_price |-> Mean(v, "total_price", DOMAIN v),
     area        |-> Mean(v, "area", DOMAIN v),
     age         |-> Mean(v, "age", DOMAIN v)]

WardGroup(v, w) == { i \in DOMAIN v : v[i].ward = w }

WardRow_CountAll(v, w) ==
    [ward |-> w,
     unit_price  |-> Mean(v, "unit_price", WardGroup(v, w)),
     total_price |-> Mean(v, "total_price", WardGroup(v, w)),
     area        |-> Mean(v, "area", WardGroup(v, w)),
     age         |-> Mean(v, "age", WardGroup(v, w)),
     distance    |-> Mean(v, "distance", WardGroup(v, w)),
     count       |-> Len(v)]

\* One group of groupby("市区町村名").agg({...: "mean", 市区町村名: "count"}).
WardRow(v, w) ==
    [ward |-> w,
     unit_price  |-> Mean(v, "unit_price", WardGroup(v, w)),
     total_price |-> Mean(v, "total_price", WardGroup(v, w)),
     area        |-> Mean(v, "area", WardGroup(v, w)),
     age         |-> Mean(v, "age", WardGroup(v, w)),
     distance    |-> Mean(v, "distance", WardGroup(v, w)),
     count       |-> Cardinality(WardGroup(v, w))]

RECURSIVE Ascending(_)
Ascending(S) ==
    IF S = {} THEN <<>>
    ELSE LET m == CHOOSE x \in S : \A y \in S : x <= y
         IN  <<m>> \o Ascending(S \ {m})

\* groupby(...).agg(...).reset_index(): one row per ward present, keys sorted.
GroupByWard(v) ==
    LET keys == Ascending({ v[i].ward : i \in DOMAIN v })
    IN  [k \in 1..Len(keys) |-> WardRow(v, keys[k])]

Orderings(n) == { p \in [1..n -> 1..n] : \A i, j \in 1..n : i # j => p[i] # p[j] }

\* sort_values("平米単価", ascending=False) with the default kind="quicksort",
\* which is not stable: every arrangement with non-increasing means is a
\* possible result, rows with equal means in any order.
SortValues(rows) ==
    { [k \in 1..Len(rows) |-> rows[p[k]]] : p \in
        { q \in Orderings(Len(rows)) :
            \A k \in 1..(Len(rows) - 1) :
                RGeq(rows[q[k]].unit_price, rows[q[k + 1]].unit_price) } }

\* -------------------------------------------------- Investment Simulator
\* 1 - sim_cost/100
NetShare_Percent(c) == RSub(Whole(1), Whole(c))

NetShare(c) == RSub(Whole(1), RDiv(Whole(c), Whole(100)))

\* gross_yield = (sim_rent * 12) / sim_price * 100
GrossYield(p, r) == RMul(RDiv(Whole(r * 12), Whole(p)), Whole(100))

\* annual_cashflow = (sim_rent * 12) * (1 - sim_cost/100)
AnnualCashflow(r, c) == RMul(Whole(r * 12), NetShare(c))

\* net_yield = ((sim_rent * 12) * (1 - sim_cost/100)) / sim_price * 100
NetYield(p, r, c) == RMul(RDiv(RMul(Whole(r * 12), NetShare(c)), Whole(p)), Whole(100))

\* payback = sim_price / annual_cashflow: Python raises ZeroDivisionError on a
\* zero divisor, and the run ends there.
PaybackRaises(r, c) == AnnualCashflow(r, c).num = 0

Payback(p, r, c) == IF PaybackRaises(r, c) THEN NaN ELSE RDiv(Whole(p), AnnualCashflow(r, c))

\* ------------------------------------------------------------ area bands
\* area_bins = [30, 50, 70, 100]; labels 1, 2, 3 are "30-50㎡", "50-70㎡",
\* "70-100㎡".
area_bins == <<30, 50, 70, 100>>

\* pd.cut(x, bins, labels) with its defaults right=True, include_lowest=False:
\* the bands are (30,50], (50,70], (70,100]; anything else is NaN (0).
Cut(x) ==
    IF \E k \in 1..3 : area_bins[k] < x /\ x <= area_bins[k + 1]
    THEN CHOOSE k \in 1..3 : area_bins[k] < x /\ x <= area_bins[k + 1]
    ELSE 0

\* filtered_df["面積帯"] = pd.cut(filtered_df["面積（㎡）"], ...)
AreaBandColumn(v) == [i \in 1..Len(v) |-> Cut(v[i].area)]

\* 想定表面利回り = (12 * 12) / (平米単価 * 60) * 100
EstimatedYield(m) == RMul(RDiv(Whole(12 * 12), RMul(m, Whole(60))), Whole(100))

BandGroup(band, b) == { i \in DOMAIN band : band[i] = b }

\* groupby("面積帯")["平米単価"].mean().reset_index() on a categorical key: with
\* observed=False every label gets a row, with observed=True only the labels
\* that occur.  The default is the installed pandas' (False before 3.0).
AreaYield(v, band, observed) ==
    LET labels == IF observed THEN Ascending({ band[i] : i \in DOMAIN band } \ {0})
                  ELSE <<1, 2, 3>>
    IN  [k \in 1..Len(labels) |->
            [band |-> labels[k],
             unit_price |-> Mean(v, "unit_price", BandGroup(band, labels[k])),
             estimated_yield |->
                 EstimatedYield(Mean(v, "unit_price", BandGroup(band, labels[k])))]]

\* ----------------------------------------------------------------- export
\* filtered_df.to_csv(index=False): a header of the frame's columns, then one
\* line per row with a cell per column (an empty cell, 0, for a NaN band).
ToCsv(v, columns, band) ==
    [header |-> columns,
     lines  |-> [i \in 1..Len(v) |->
                    [c \in 1..Len(columns) |->
                        IF columns[c] = "area_band" THEN band[i] ELSE v[i][columns[c]]]]]

NoCsv == [header |-> <<>>, lines |-> <<>>]

\* --------------------------------------------------------- one script run
\* The whole script, top to bottom, on the widget values it reads.
RunScript(sel, a, g, t, p, r, c) ==
    /\ cache' = load_data
    /\ rendered' = TRUE
    /\ df' = cache'
    /\ selected_ward' = sel
    /\ area_range' = a
    /\ age_range' = g
    /\ distance_range' = t
    /\ sim_price' = p
    /\ sim_rent' = r
    /\ sim_cost' = c
    /\ filtered_df' = FilteredView(df', sel, a, g, t)
    /\ metrics' = Tab1Metrics(filtered_df')
    /\ \E grouped \in { GroupByWard(filtered_df') } : ward_stats' \in SortValues(grouped)
    /\ gross_yield' = GrossYield(p, r)
    /\ net_yield' = NetYield(p, r, c)
    /\ annual_cashflow' = AnnualCashflow(r, c)
    /\ payback' = Payback(p, r, c)
    /\ IF PaybackRaises(r, c)
       THEN \* the exception ends the run before the band table and the export
            /\ error' = "ZeroDivisionError"
            /\ filtered_columns' = DatasetColumns
            /\ area_band' = <<>>
            /\ area_yield' = <<>>
            /\ csv' = NoCsv
            /\ file_name' = -1
       ELSE /\ error' = "none"
            /\ area_band' = AreaBandColumn(filtered_df')
            /\ filtered_columns' = Append(DatasetColumns, "area_band")
            /\ area_yield' = AreaYield(filtered_df', area_band', observed_default)
            /\ csv' = ToCsv(filtered_df', filtered_columns', area_band')
            /\ file_name' = Len(filtered_df')
    /\ UNCHANGED <<csv_file, observed_default>>

Init ==
    /\ csv_file \in Datasets
    /\ observed_default \in BOOLEAN
    /\ cache = <<>>
    /\ rendered = FALSE
    /\ df = <<>>
    /\ selected_ward = {ALL}
    /\ area_range = DefaultArea
    /\ age_range = DefaultAge
    /\ distance_range = DefaultDistance
    /\ sim_price = 3000
    /\ sim_rent = 12
    /\ sim_cost = 20
    /\ filtered_df = <<>>
    /\ filtered_columns = <<>>
    /\ area_band = <<>>
    /\ metrics = [unit_price |-> NaN, total_price |-> NaN, area |-> NaN, age |-> NaN]
    /\ ward_stats = <<>>
    /\ gross_yield = NaN
    /\ net_yield = NaN
    /\ annual_cashflow = NaN
    /\ payback = NaN
    /\ error = "none"
    /\ area_yield = <<>>
    /\ csv = NoCsv
    /\ file_name = -1

\* The browser opens the page: the first run, on the widgets' defaults.
SessionStart ==
    /\ ~rendered
    /\ RunScript(selected_ward, area_range, age_range, distance_range,
                 sim_price, sim_rent, sim_cost)

\* The multiselect's options are "全て" and the wards of df.
SelectWard(sel) ==
    /\ rendered
    /\ sel # selected_ward
    /\ sel \subseteq {ALL} \cup { df[i].ward : i \in 1..Len(df) }
    /\ RunScript(sel, area_range, age_range, distance_range, sim_price, sim_rent, sim_cost)

\* A range slider between int(min) and int(max) of the column.
SlideArea(a) ==
    /\ rendered
    /\ a # area_range
    /\ SeqMin(Column(df, "area")) <= a[1] /\ a[1] <= a[2] /\ a[2] <= SeqMax(Column(df, "area"))
    /\ RunScript(selected_ward, a, age_range, distance_range, sim_price, sim_rent, sim_cost)

SlideAge(g) ==
    /\ rendered
    /\ g # age_range
    /\ SeqMin(Column(df, "age")) <= g[1] /\ g[1] <= g[2] /\ g[2] <= SeqMax(Column(df, "age"))
    /\ RunScript(selected_ward, area_range, g, distance_range, sim_price, sim_rent, sim_cost)

SlideDistance(t) ==
    /\ rendered
    /\ t # distance_range
    /\ SeqMin(Column(df, "distance")) <= t[1] /\ t[1] <= t[2]
    /\ t[2] <= SeqMax(Column(df, "distance"))
    /\ RunScript(selected_ward, area_range, age_range, t, sim_price, sim_rent, sim_cost)

InputPrice(p) ==
    /\ rendered
    /\ p # sim_price
    /\ sim_price_min <= p /\ p <= sim_price_max
    /\ RunScript(selected_ward, area_range, age_range, distance_range, p, sim_rent, sim_cost)

InputRent(r) ==
    /\ rendered
    /\ r # sim_rent
    /\ sim_rent_min <= r /\ r <= sim_rent_max
    /\ RunScript(selected_ward, area_range, age_range, distance_range, sim_price, r, sim_cost)

InputCost(c) ==
    /\ rendered
    /\ c # sim_cost
    /\ sim_cost_min <= c /\ c <= sim_cost_max
    /\ RunScript(selected_ward, area_range, age_range, distance_range, sim_price, sim_rent, c)

Next ==
    \/ SessionStart
    \/ \E sel \in WardSelections : SelectWard(sel)
    \/ \E a \in AreaRanges : SlideArea(a)
    \/ \E g \in AgeRanges : SlideAge(g)
    \/ \E t \in DistanceRanges : SlideDistance(t)
    \/ \E p \in PriceInputs : InputPrice(p)
    \/ \E r \in RentInputs : InputRent(r)
    \/ \E c \in CostInputs : InputCost(c)

Spec == Init /\ [][Next]_vars

\* ================================================================ claims
\* What the spec says a row must satisfy to be kept, on the current criteria.
Retained(r) ==
    /\ ALL \in selected_ward \/ r.ward \in selected_ward
    /\ area_range[1] <= r.area /\ r.area <= area_range[2]
    /\ age_range[1] <= r.age /\ r.age <= age_range[2]
    /\ distance_range[1] <= r.distance /\ r.distance <= distance_range[2]

\* C1: the Filtered View is a subset of the Dataset; a row is retained if and
\* only if the selection holds "all" or its ward, and its area, age and
\* distance lie in their intervals, both ends included; every excluded row
\* violates one of these.
C1_FilterContract ==
    rendered =>
        /\ \A j \in DOMAIN filtered_df : \E i \in DOMAIN df : df[i] = filtered_df[j]
        /\ \A j \in DOMAIN filtered_df : Retained(filtered_df[j])
        /\ \A i \in DOMAIN df :
               Retained(df[i]) <=> \E j \in DOMAIN filtered_df : filtered_df[j] = df[i]
        /\ Len(filtered_df) = Cardinality({ i \in DOMAIN df : Retained(df[i]) })

\* A ward is selected without "all", the area slider is on [50, 70], and the
\* view keeps a row on each end of the interval's reach while dropping others.
C1_Witness ==
    /\ rendered
    /\ ALL \notin selected_ward
    /\ area_range = <<50, 70>>
    /\ \E j \in DOMAIN filtered_df : filtered_df[j].area = 50
    /\ Len(filtered_df) < Len(df)

\* C2: on an empty Filtered View each of the four summary means is a defined
\* "no data" signal, not NaN; on a non-empty view each is the arithmetic mean
\* of its column over the retained rows.
C2_EmptyViewSignalsNoData ==
    rendered =>
        \A f \in {"unit_price", "total_price", "area", "age"} :
            IF filtered_df = <<>>
            THEN ~IsNaN(metrics[f])
            ELSE /\ ~IsNaN(metrics[f])
                 /\ metrics[f].num * Len(filtered_df)
                        = SumOver(filtered_df, f, DOMAIN filtered_df, Len(filtered_df))
                            * metrics[f].den

\* C3: gross_yield = (R*12)/P*100, annual_cashflow = (R*12)*(1 - C/100),
\* net_yield = annual_cashflow/P*100, payback = P/annual_cashflow, functions of
\* P, R and C alone; P=3000, R=12, C=20 gives 4.8, 3.84, 115.2 and about 26.04.
C3_SimulatorFormulas ==
    rendered =>
        /\ gross_yield.den > 0 /\ net_yield.den > 0
        /\ annual_cashflow.den > 0 /\ payback.den > 0
        /\ gross_yield.num * sim_price = sim_rent * 12 * 100 * gross_yield.den
        /\ annual_cashflow.num * 100 = sim_rent * 12 * (100 - sim_cost) * annual_cashflow.den
        /\ net_yield.num * annual_cashflow.den * sim_price
               = annual_cashflow.num * 100 * net_yield.den
        /\ payback.num * annual_cashflow.num = sim_price * annual_cashflow.den * payback.den
        /\ (sim_price = 3000 /\ sim_rent = 12 /\ sim_cost = 20) =>
               /\ gross_yield = [num |-> 24, den |-> 5]
               /\ net_yield = [num |-> 96, den |-> 25]
               /\ annual_cashflow = [num |-> 576, den |-> 5]
               /\ 2604 * payback.den <= payback.num * 100
               /\ payback.num * 100 < 2605 * payback.den

\* The worked example, computed while the filters stand off their defaults.
C3_Witness ==
    /\ rendered
    /\ sim_price = 3000 /\ sim_rent = 12 /\ sim_cost = 20
    /\ net_yield = [num |-> 96, den |-> 25]
    /\ area_range # DefaultArea

\* C4: no input the widgets accept makes the payback division fail: the run
\* ends without an exception, annual_cashflow is positive and payback is
\* finite; a zero or negative annual_cashflow (which no accepted input
\* produces) would have to show as a non-finite payback.
C4_PaybackNeverDividesByZero ==
    rendered =>
        /\ error = "none"
        /\ annual_cashflow.num > 0
        /\ ~IsNaN(payback)
        /\ annual_cashflow.num <= 0 => IsNaN(payback)

\* The least cash flow the widgets allow: lowest rent, highest cost ratio.
C4_Witness ==
    /\ rendered
    /\ sim_rent = sim_rent_min
    /\ sim_cost = sim_cost_max
    /\ annual_cashflow = Whole(30)
    /\ ~IsNaN(payback)

\* C5: every row of the view with 30 <= area <= 100 is in exactly one of
\* [30,50), [50,70), [70,100]: area 30 in 30-50, area 50 in 50-70, area 70 in
\* 70-100, area 100 in 70-100.
C5_LeftClosedBands ==
    (rendered /\ error = "none") =>
        \A i \in DOMAIN filtered_df :
            LET x == filtered_df[i].area
            IN  /\ (30 <= x /\ x < 50) => area_band[i] = 1
                /\ (50 <= x /\ x < 70) => area_band[i] = 2
                /\ (70 <= x /\ x <= 100) => area_band[i] = 3

\* C6: the band table has a row for a band if and only if a row of the view
\* falls in it, and every row has a defined mean unit price and a defined
\* estimated yield.
C6_OnlyOccupiedBands ==
    (rendered /\ error = "none") =>
        /\ \A b \in 1..3 :
               (\E k \in DOMAIN area_yield : area_yield[k].band = b)
                   <=> (\E i \in DOMAIN area_band : area_band[i] = b)
        /\ \A k \in DOMAIN area_yield :
               ~IsNaN(area_yield[k].unit_price) /\ ~IsNaN(area_yield[k].estimated_yield)

\* C7: the per-ward table is in descending order of mean unit price, and
\* wards with equal means are in lexical order.
C7_SortedWithLexicalTies ==
    rendered =>
        \A i, j \in DOMAIN ward_stats :
            i < j =>
                /\ RGeq(ward_stats[i].unit_price, ward_stats[j].unit_price)
                /\ ward_stats[i].unit_price = ward_stats[j].unit_price
                       => ward_stats[i].ward < ward_stats[j].ward

\* C8: the per-ward table has exactly one row per ward that occurs in the view
\* and none for the others, each row's count is the number of rows of its
\* ward, and the counts add up to the size of the view.
C8_GroupCounts ==
    rendered =>
        /\ \A w \in Wards :
               Cardinality({ k \in DOMAIN ward_stats : ward_stats[k].ward = w })
                   = IF \E i \in DOMAIN filtered_df : filtered_df[i].ward = w THEN 1 ELSE 0
        /\ \A k \in DOMAIN ward_stats :
               /\ ward_stats[k].ward \in Wards
               /\ ward_stats[k].count
                      = Cardinality({ i \in DOMAIN filtered_df :
                                        filtered_df[i].ward = ward_stats[k].ward })
        /\ SumOver(ward_stats, "count", DOMAIN ward_stats, Len(ward_stats)) = Len(filtered_df)

\* Two wards in the table, one of them with two rows of the view.
C8_Witness ==
    /\ rendered
    /\ Len(ward_stats) = 2
    /\ \E k \in DOMAIN ward_stats : ward_stats[k].count = 2
    /\ Len(filtered_df) = 3

\* C9: the steps after the filter leave the view's rows and columns as the
\* Filter Engine produced them, so the export has exactly the dataset's
\* columns, one line per row with the row's values, and the count in the file
\* name is the number of exported lines.
C9_ExportIsTheFilteredView ==
    (rendered /\ error = "none") =>
        /\ filtered_columns = DatasetColumns
        /\ csv.header = DatasetColumns
        /\ Len(csv.lines) = Len(filtered_df)
        /\ file_name = Len(csv.lines)
        /\ \A i \in DOMAIN csv.lines :
               \A c \in DOMAIN DatasetColumns :
                   c \in DOMAIN csv.lines[i]
                       /\ csv.lines[i][c] = filtered_df[i][DatasetColumns[c]]

\* C10: after any sequence of interactions the loaded Dataset is the file as
\* loaded, and the view is the filter of the whole Dataset on the current
\* criteria alone.
C10_ViewFromCurrentCriteria ==
    rendered =>
        /\ cache = csv_file
        /\ df = csv_file
        /\ filtered_df = SelectSeq(csv_file, Retained)

\* Several interactions in: three filter widgets and a simulator input stand
\* off their defaults, and the view is not empty.
C10_Witness ==
    /\ rendered
    /\ selected_ward # {ALL}
    /\ area_range # DefaultArea
    /\ age_range # DefaultAge
    /\ sim_rent # 12
    /\ filtered_df # <<>>

=============================================================================
